---- MODULE Spec2Model ----
(***************************************************************************)
(* Model of bot.py: a Telegram bot that stores photos and answers with     *)
(* links (image_handler), and a Flask endpoint /upload_photo that relays a *)
(* snapshot to the user a session id belongs to (upload_photo).  Both run  *)
(* in one process and share one sqlite connection and one cursor.          *)
(*                                                                         *)
(* Text that the program parses (the data URI, its base64 payload) is a    *)
(* sequence of one-character strings.                                      *)
(***************************************************************************)
EXTENDS Integers, Sequences, FiniteSets, TLC

\* Bounds of the model.
MaxEvents == 3
MaxTime == 1

\* Python's None, where a value may be absent.
NoneVal == "<None>"

(***************************************************************************)
(* re.match of image_data against the data-URI pattern: the literal        *)
(* data:image/, one or more characters other than a semicolon (group 1     *)
(* with the image/ before them), the literal ;base64, and the rest of the  *)
(* line (group 2), anchored at the end by a dollar sign.                   *)
(***************************************************************************)
DataImagePrefix == <<"d", "a", "t", "a", ":", "i", "m", "a", "g", "e", "/">>

Base64Marker == <<";", "b", "a", "s", "e", "6", "4", ",">>

StartsWith(s, p) == Len(s) >= Len(p) /\ SubSeq(s, 1, Len(p)) = p

\* Index of the first ";" of s at or after position i, or 0.
RECURSIVE FirstSemicolon(_, _)
FirstSemicolon(s, i) ==
    IF i > Len(s) THEN 0
    ELSE IF s[i] = ";" THEN i
    ELSE FirstSemicolon(s, i + 1)

\* ".*" does not match a newline; "$" matches at the end of the string and
\* before a newline that ends the string.
NoNewline(s) == \A i \in 1..Len(s) : s[i] # "\n"

\* The match object: matched, group(1) without the "image/" check repeated,
\* group(2).  [^;]+ takes every character up to the first ";", and needs one.
MatchDataUri(s) ==
    LET p == Len(DataImagePrefix)
        k == IF StartsWith(s, DataImagePrefix) THEN FirstSemicolon(s, p + 1) ELSE 0
        rest == IF k = 0 THEN <<>> ELSE SubSeq(s, k, Len(s))
        tail == IF StartsWith(rest, Base64Marker)
                THEN SubSeq(rest, Len(Base64Marker) + 1, Len(rest))
                ELSE <<>>
        body == IF tail # <<>> /\ tail[Len(tail)] = "\n"
                THEN SubSeq(tail, 1, Len(tail) - 1)
                ELSE tail
    IN  IF k > p + 1 /\ StartsWith(rest, Base64Marker) /\ NoNewline(body)
        THEN [matched |-> TRUE, mime |-> SubSeq(s, 6, k - 1), b64 |-> body]
        ELSE [matched |-> FALSE, mime |-> <<>>, b64 |-> <<>>]

(***************************************************************************)
(* base64.b64decode(b64): binascii.a2b_base64 without strict mode.         *)
(***************************************************************************)
B64Alphabet ==
    <<"A", "B", "C", "D", "E", "F", "G", "H", "I", "J", "K", "L", "M",
      "N", "O", "P", "Q", "R", "S", "T", "U", "V", "W", "X", "Y", "Z",
      "a", "b", "c", "d", "e", "f", "g", "h", "i", "j", "k", "l", "m",
      "n", "o", "p", "q", "r", "s", "t", "u", "v", "w", "x", "y", "z",
      "0", "1", "2", "3", "4", "5", "6", "7", "8", "9", "+", "/">>

IsB64Char(ch) == \E i \in 1..Len(B64Alphabet) : B64Alphabet[i] = ch

B64Val(ch) == (CHOOSE i \in 1..Len(B64Alphabet) : B64Alphabet[i] = ch) - 1

\* Characters b64decode cannot encode as ASCII (it raises ValueError).
NonAscii == {"é"}

\* The decoder's loop from position i on: quad is quad_pos, left is leftchar,
\* pads counts the "=" seen since the last data character, out the bytes so far.
\* A character outside the alphabet is skipped; padding that completes a quad
\* ends the decoding and leaves the rest unread.
RECURSIVE B64Loop(_, _, _, _, _, _)
B64Loop(s, i, quad, left, pads, out) ==
    IF i > Len(s)
    THEN [ok |-> quad = 0, bytes |-> IF quad = 0 THEN out ELSE <<>>]
    ELSE IF s[i] = "="
    THEN IF quad >= 2 /\ quad + pads + 1 >= 4
         THEN [ok |-> TRUE, bytes |-> out]
         ELSE B64Loop(s, i + 1, quad, left, IF quad >= 2 THEN pads + 1 ELSE pads, out)
    ELSE IF ~IsB64Char(s[i])
    THEN B64Loop(s, i + 1, quad, left, pads, out)
    ELSE LET v == B64Val(s[i])
         IN  CASE quad = 0 -> B64Loop(s, i + 1, 1, v, 0, out)
               [] quad = 1 ->
                    B64Loop(s, i + 1, 2, v % 16, 0, Append(out, (left * 4 + v \div 16) % 256))
               [] quad = 2 ->
                    B64Loop(s, i + 1, 3, v % 4, 0, Append(out, (left * 16 + v \div 4) % 256))
               [] quad = 3 ->
                    B64Loop(s, i + 1, 0, 0, 0, Append(out, (left * 64 + v) % 256))

\* [ok |-> FALSE] is b64decode raising (binascii.Error or ValueError).
B64Decode(s) ==
    IF \E i \in 1..Len(s) : s[i] \in NonAscii
    THEN [ok |-> FALSE, bytes |-> <<>>]
    ELSE B64Loop(s, 1, 0, 0, 0, <<>>)

(***************************************************************************)
(* Values of the model.                                                    *)
(***************************************************************************)
\* Chat users (update.effective_user.id).
Users == {1, 2}

\* The values secrets.token_urlsafe(8) can return: a random draw, which the
\* program neither compares with the store nor repeats.
Tokens == {"tA", "tB"}

\* The threads of the Flask server that run upload_photo.
Threads == {"h1", "h2"}

\* The file_url values a remote host answers with.
RemoteUrls == {"https://cdn.example/f.jpg"}

\* str(e) of a failed transfer.
ErrorDetails == {"timed out"}

\* URLs are records of one shape: path tells which kind, file is the
\* (user, timestamp) of image_<user>_<timestamp>.jpg, id a token or remote URL.
NoFile == <<0, 0>>

NoUrl == [path |-> "none", file |-> NoFile, id |-> NoneVal]

\* filename = f"image_{update.effective_user.id}_{timestamp}.jpg"
Filename(user, timestamp) == <<user, timestamp>>

\* f"{HOST_URL_CLEAN}/uploads/{filename}"
DefaultUrl(filename) == [path |-> "uploads", file |-> filename, id |-> NoneVal]

\* f"{HOST_URL_CLEAN}/i/{short_id}"
ShortUrl(short_id) == [path |-> "i", file |-> NoFile, id |-> short_id]

\* The URL the remote host returned in file_url.
RemoteUrl(file_url) == [path |-> "remote", file |-> NoFile, id |-> file_url]

\* image_data values a client sends.
ImgPng ==
    <<"d", "a", "t", "a", ":", "i", "m", "a", "g", "e", "/", "p", "n", "g",
      ";", "b", "a", "s", "e", "6", "4", ",",
      "i", "V", "B", "O", "R", "w", "0", "K", "G", "g", "o", "=">>

ImgNotUri ==
    <<"n", "o", "t", "-", "a", "-", "d", "a", "t", "a", "-", "u", "r", "i">>

ImgBadPadding ==
    <<"d", "a", "t", "a", ":", "i", "m", "a", "g", "e", "/", "p", "n", "g",
      ";", "b", "a", "s", "e", "6", "4", ",", "i", "V", "B">>

ImgJpegSpaced ==
    <<"d", "a", "t", "a", ":", "i", "m", "a", "g", "e", "/", "j", "p", "e", "g",
      ";", "b", "a", "s", "e", "6", "4", ",", "/", "9", " ", "j", "/">>

\* A request carries one of these texts; the state holds its name.
Images == {"png", "not_a_data_uri", "bad_padding", "jpeg_spaced"}

ImageText(name) ==
    CASE name = "png" -> ImgPng
      [] name = "not_a_data_uri" -> ImgNotUri
      [] name = "bad_padding" -> ImgBadPadding
      [] name = "jpeg_spaced" -> ImgJpegSpaced
      [] OTHER -> <<>>

(***************************************************************************)
(* The session store: table user_sessions, session_id PRIMARY KEY, and the *)
(* one cursor c that every thread uses.                                    *)
(***************************************************************************)
Row(user_id, session_id, original_image) ==
    [user_id |-> user_id, session_id |-> session_id,
     original_image |-> original_image]

\* INSERT without OR REPLACE semantics: the row is added beside an old one.
InsertKeepingOld(st, row) == st \cup {row}

\* A table whose primary key is user_id: a put replaces the user's old row.
InsertOrReplaceByUser(st, row) ==
    {r \in st : r.user_id # row.user_id} \cup {row}

\* INSERT OR REPLACE INTO user_sessions: the row with the same primary key
\* is deleted, then the new row is inserted.
InsertOrReplace(st, row) ==
    {r \in st : r.session_id # row.session_id} \cup {row}

RECURSIVE SetToSeq(_)
SetToSeq(S) ==
    IF S = {} THEN <<>>
    ELSE LET x == CHOOSE y \in S : TRUE IN <<x>> \o SetToSeq(S \ {x})

\* SELECT user_id FROM user_sessions WHERE session_id = ?: the result rows.
SelectUserId(st, session) ==
    SetToSeq({<<r.user_id>> : r \in {q \in st : q.session_id = session}})

HasSession(st, session) == \E r \in st : r.session_id = session

\* A lookup that uses the session up: its row is deleted once it is read.
RowsAfterLookupConsumed(st, session) == {r \in st : r.session_id # session}

\* The rows of the table after the SELECT and the fetchone of lines 110-111,
\* the only statements of upload_photo that touch the store: they read.
RowsAfterLookup(st, session) == st

(***************************************************************************)
(* UploadResolver: lines 166-188 of image_handler.                         *)
(***************************************************************************)
\* What the transfer to <host>/home.php can end in.  open_error: open(file_path)
\* raises; transport_error: requests.post raises (connection error, timeout);
\* http_error: resp.ok is false, a status of 400 or above; not_json: resp.json()
\* raises; not_object: the JSON value has no get; no_success, no_file_url: the
\* object's success or file_url is absent or falsy; success: both are truthy.
RemoteOutcomes ==
    {[kind |-> k, detail |-> d, file_url |-> NoneVal] :
        k \in {"open_error", "transport_error"}, d \in ErrorDetails}
    \cup {[kind |-> k, detail |-> NoneVal, file_url |-> NoneVal] :
        k \in {"http_error", "not_json", "not_object", "no_success", "no_file_url"}}
    \cup {[kind |-> "success", detail |-> NoneVal, file_url |-> f] : f \in RemoteUrls}

\* A resolver that takes file_url from the response before it looks at the
\* success flag and at file_url itself.
ClassifyUnchecked(remote, default_url) ==
    CASE remote.kind \in {"open_error", "transport_error"} ->
            [uploaded_remote |-> FALSE, upload_error |-> remote.detail,
             image_url |-> default_url]
      [] remote.kind \in {"success", "no_success", "no_file_url"} ->
            [uploaded_remote |-> remote.kind = "success", upload_error |-> NoneVal,
             image_url |-> RemoteUrl(remote.file_url)]
      [] OTHER ->
            [uploaded_remote |-> FALSE, upload_error |-> NoneVal,
             image_url |-> default_url]

\* A resolver whose inner except block records the error as the outer does.
ClassifyRecordingAll(remote, default_url) ==
    CASE remote.kind \in {"open_error", "transport_error"} ->
            [uploaded_remote |-> FALSE, upload_error |-> remote.detail,
             image_url |-> default_url]
      [] remote.kind = "success" ->
            [uploaded_remote |-> TRUE, upload_error |-> NoneVal,
             image_url |-> RemoteUrl(remote.file_url)]
      [] remote.kind \in {"not_json", "not_object"} ->
            [uploaded_remote |-> FALSE, upload_error |-> remote.kind,
             image_url |-> default_url]
      [] OTHER ->
            [uploaded_remote |-> FALSE, upload_error |-> NoneVal,
             image_url |-> default_url]

\* uploaded_remote, upload_error and image_url after the try block.
Classify(remote, default_url) ==
    CASE remote.kind \in {"open_error", "transport_error"} ->
            [uploaded_remote |-> FALSE, upload_error |-> remote.detail,
             image_url |-> default_url]
      [] remote.kind = "success" ->
            [uploaded_remote |-> TRUE, upload_error |-> NoneVal,
             image_url |-> RemoteUrl(remote.file_url)]
      [] OTHER ->
            [uploaded_remote |-> FALSE, upload_error |-> NoneVal,
             image_url |-> default_url]

(***************************************************************************)
(* LinkIssuer: lines 190-201 of image_handler.                             *)
(***************************************************************************)
\* A handler that mints a session whatever the upload's outcome.
NeedsSessionAlways(uploaded_remote) == TRUE

\* if not uploaded_remote: a session is minted.
NeedsSession(uploaded_remote) == ~uploaded_remote

\* A handler that stores the share link in place of the image URL.
SessionRowShare(user_id, short_id, image_url) ==
    Row(user_id, short_id, ShortUrl(short_id))

\* The row of the INSERT OR REPLACE at lines 195-196.
SessionRow(user_id, short_id, image_url) == Row(user_id, short_id, image_url)

\* short_url
ShareLink(uploaded_remote, image_url, short_id) ==
    IF NeedsSession(uploaded_remote) THEN ShortUrl(short_id) ELSE image_url

(***************************************************************************)
(* The reply of image_handler: lines 203-227.                              *)
(***************************************************************************)
NoReply ==
    [kind |-> "none", text_link |-> NoUrl, text_direct |-> NoUrl,
     text_error |-> NoneVal, share_button |-> NoUrl, direct_button |-> NoUrl]

\* err_text at line 219: the detail when upload_error is truthy, nothing when
\* it is None or the empty string.
ErrText(upload_error) ==
    IF upload_error \in {NoneVal, ""} THEN NoneVal ELSE upload_error

\* A reply whose keyboard has the two URLs on the wrong buttons.
ReplySwappedButtons(uploaded_remote, upload_error, image_url, short_url) ==
    IF uploaded_remote
    THEN [kind |-> "success", text_link |-> image_url, text_direct |-> NoUrl,
          text_error |-> NoneVal,
          share_button |-> image_url, direct_button |-> short_url]
    ELSE [kind |-> "fallback", text_link |-> short_url, text_direct |-> image_url,
          text_error |-> ErrText(upload_error),
          share_button |-> image_url, direct_button |-> short_url]

\* The text block chosen by uploaded_remote and the inline keyboard.
Reply(uploaded_remote, upload_error, image_url, short_url) ==
    IF uploaded_remote
    THEN [kind |-> "success", text_link |-> image_url, text_direct |-> NoUrl,
          text_error |-> NoneVal,
          share_button |-> short_url, direct_button |-> image_url]
    ELSE [kind |-> "fallback", text_link |-> short_url, text_direct |-> image_url,
          text_error |-> ErrText(upload_error),
          share_button |-> short_url, direct_button |-> image_url]

\* except Exception as e: reply_text(f"Error: {e}")
ErrorReply(e) ==
    [kind |-> "error", text_link |-> NoUrl, text_direct |-> NoUrl,
     text_error |-> e, share_button |-> NoUrl, direct_button |-> NoUrl]

(***************************************************************************)
(* State.                                                                  *)
(***************************************************************************)
VARIABLES
    store,    \* the rows of user_sessions
    cur,      \* the rows the shared cursor c has still to return
    http,     \* per server thread: the upload_photo request it runs
    resp,     \* the response, when the step just taken returned one
    chat,     \* the photo event, when the step just taken handled one
    issued,   \* the tokens sessions were written under so far, in order
    files,    \* the names of the files written to WEB_UPLOAD_DIR
    clock,    \* int(time.time())
    nEvents   \* photo events and upload_photo requests received so far

vars == <<store, cur, http, resp, chat, issued, files, clock, nEvents>>

\* Request bodies.  get_json(silent=True) gives None for a body that is not
\* JSON; a JSON body is the empty object, a non-empty list, or an object whose
\* session and image are absent (None), empty ("") or a string.
NotJson == [kind |-> "notjson", session |-> NoneVal, image |-> NoneVal]

EmptyObject == [kind |-> "emptyobj", session |-> NoneVal, image |-> NoneVal]

JsonList == [kind |-> "list", session |-> NoneVal, image |-> NoneVal]

SessionFields == {NoneVal, ""} \cup Tokens

ImageFields == {NoneVal, ""} \cup Images

Bodies ==
    {NotJson, EmptyObject, JsonList}
    \cup {[kind |-> "obj", session |-> s, image |-> i] :
            s \in SessionFields, i \in ImageFields}

\* not session / not image_data
SessionMissing(body) == body.session \in {NoneVal, ""}

ImageMissing(body) == body.image \in {NoneVal, ""}

\* What bot.send_photo(...) at line 132 can do.  Bot's methods are coroutine
\* functions (image_handler awaits context.bot.get_file at line 151, and the
\* imports at lines 12-13 are those of the asyncio API); upload_photo is a
\* plain function and calls send_photo without awaiting it, which builds the
\* coroutine and sends nothing.  A Bot with blocking methods sends the photo
\* or raises.
SendOutcomes == {"delivered", "raised", "not_awaited"}

IdleThread ==
    [pc |-> "idle", body |-> NotJson, present |-> FALSE, owner |-> 0]

NoResp ==
    [thread |-> NoneVal, body |-> NotJson, present |-> FALSE, owner |-> 0,
     lookups |-> 0, fetched |-> 0, status |-> 0, error |-> NoneVal, sends |-> <<>>]

NoChat ==
    [user |-> 0, ts |-> 0, failed |-> "none", remote |-> "none",
     file_url |-> NoneVal, uploaded_remote |-> FALSE, upload_error |-> NoneVal,
     default_url |-> NoUrl, image_url |-> NoUrl,
     short_id |-> NoneVal, short_url |-> NoUrl,
     reply |-> NoReply, escaped |-> FALSE, rows_before |-> 0, fresh |-> FALSE]

Init ==
    /\ store = {}
    /\ cur = <<>>
    /\ http = [t \in Threads |-> IdleThread]
    /\ resp = NoResp
    /\ chat = NoChat
    /\ issued = <<>>
    /\ files = {}
    /\ clock = 0
    /\ nEvents = 0

\* The clock advances between events.
Tick ==
    /\ clock < MaxTime
    /\ clock' = clock + 1
    /\ resp' = NoResp
    /\ chat' = NoChat
    /\ UNCHANGED <<store, cur, http, issued, files, nEvents>>

(***************************************************************************)
(* image_handler, lines 147-227.  The event loop runs one handler at a     *)
(* time, and the handler's only access to state shared with the server     *)
(* threads is the INSERT OR REPLACE on cursor c, so the handler is one     *)
(* step.  fail names the call that raises, if any; remote is the outcome   *)
(* of the transfer; tok is what token_urlsafe returns; errorReplyOk tells   *)
(* whether the reply_text of the except block goes through.                *)
(***************************************************************************)
FailPoints == {"none", "get_file", "download", "store", "reply"}

image_handler(user, fail, remote, tok, errorReplyOk) ==
    LET filename == Filename(user, clock)
        default_url == DefaultUrl(filename)
        cls == Classify(remote, default_url)
        downloaded == fail \notin {"get_file", "download"}
        minted == downloaded /\ NeedsSession(cls.uploaded_remote)
        written == minted /\ fail # "store"
        linked == downloaded /\ fail # "store"
        short_url == ShareLink(cls.uploaded_remote, cls.image_url, tok)
    IN  /\ nEvents < MaxEvents
        /\ nEvents' = nEvents + 1
        /\ files' = IF downloaded THEN files \cup {filename} ELSE files
        /\ store' = IF written
                    THEN InsertOrReplace(store, SessionRow(user, tok, cls.image_url))
                    ELSE store
        /\ cur' = IF minted THEN <<>> ELSE cur
        /\ issued' = IF written THEN Append(issued, tok) ELSE issued
        /\ chat' =
             [user |-> user, ts |-> clock, failed |-> fail,
              remote |-> IF downloaded THEN remote.kind ELSE "none",
              file_url |-> IF downloaded THEN remote.file_url ELSE NoneVal,
              uploaded_remote |-> downloaded /\ cls.uploaded_remote,
              upload_error |-> IF downloaded THEN cls.upload_error ELSE NoneVal,
              default_url |-> IF downloaded THEN default_url ELSE NoUrl,
              image_url |-> IF downloaded THEN cls.image_url ELSE NoUrl,
              short_id |-> IF minted THEN tok ELSE NoneVal,
              short_url |-> IF linked THEN short_url ELSE NoUrl,
              reply |-> IF fail = "none"
                        THEN Reply(cls.uploaded_remote, cls.upload_error,
                                   cls.image_url, short_url)
                        ELSE IF errorReplyOk THEN ErrorReply(fail) ELSE NoReply,
              escaped |-> fail # "none" /\ ~errorReplyOk,
              rows_before |-> Cardinality(store),
              fresh |-> minted /\ \A i \in 1..Len(issued) : issued[i] # tok]
        /\ resp' = NoResp
        /\ UNCHANGED <<http, clock>>

(***************************************************************************)
(* upload_photo, lines 94-136.  A server thread runs it in two steps: up   *)
(* to c.execute (line 110), and from c.fetchone (line 111) on.  Between     *)
(* the two, other threads may use the cursor.                              *)
(***************************************************************************)
\* jsonify(...), status: the request's record, as resp holds it.
Respond(t, r, lookups, fetched, status, error, sends) ==
    [thread |-> t, body |-> r.body, present |-> r.present, owner |-> r.owner,
     lookups |-> lookups, fetched |-> fetched, status |-> status,
     error |-> error, sends |-> sends]

\* The user_id of the row of a session, 0 when there is none.
OwnerOf(st, session) ==
    IF HasSession(st, session)
    THEN (CHOOSE r \in st : r.session_id = session).user_id
    ELSE 0

\* Lines 99-110.
upload_photo_query(t, body) ==
    LET r == [IdleThread EXCEPT !.body = body]
    IN  /\ http[t].pc = "idle"
        /\ nEvents < MaxEvents
        /\ nEvents' = nEvents + 1
        /\ IF body.kind \in {"notjson", "emptyobj"}
           THEN /\ resp' = Respond(t, r, 0, 0, 400, "invalid json", <<>>)
                /\ UNCHANGED <<http, cur>>
           ELSE IF body.kind = "list"
           THEN \* data.get raises AttributeError: Flask answers 500 itself
                /\ resp' = Respond(t, r, 0, 0, 500, "internal server error", <<>>)
                /\ UNCHANGED <<http, cur>>
           ELSE IF SessionMissing(body) \/ ImageMissing(body)
           THEN /\ resp' = Respond(t, r, 0, 0, 400, "missing fields", <<>>)
                /\ UNCHANGED <<http, cur>>
           ELSE /\ http' = [http EXCEPT ![t] =
                      [pc |-> "fetch", body |-> body,
                       present |-> HasSession(store, body.session),
                       owner |-> OwnerOf(store, body.session)]]
                /\ cur' = SelectUserId(store, body.session)
                /\ resp' = NoResp
        /\ chat' = NoChat
        /\ UNCHANGED <<store, issued, files, clock>>

\* Lines 111-136.  outcome is what send_photo does; a request that returns
\* before line 132 takes one step, written with outcome "raised".  Each call
\* on the cursor is one step: sqlite3 serialises the calls themselves.
upload_photo_fetch(t, outcome) ==
    LET r == http[t]
        m == MatchDataUri(ImageText(r.body.image))
        d == B64Decode(m.b64)
        user_id == cur[1][1]
        send == [chat_id |-> user_id, photo |-> d.bytes, result |-> outcome]
    IN  /\ r.pc = "fetch"
        /\ http' = [http EXCEPT ![t] = IdleThread]
        /\ cur' = IF cur = <<>> THEN cur ELSE Tail(cur)
        /\ IF cur = <<>>
           THEN /\ outcome = "raised"
                /\ resp' = Respond(t, r, 1, 0, 404, "invalid session", <<>>)
           ELSE IF ~m.matched
           THEN /\ outcome = "raised"
                /\ resp' = Respond(t, r, 1, user_id, 400, "invalid image data", <<>>)
           ELSE IF ~d.ok
           THEN /\ outcome = "raised"
                /\ resp' = Respond(t, r, 1, user_id, 400, "base64 decode failed", <<>>)
           ELSE IF outcome = "raised"
           THEN resp' = Respond(t, r, 1, user_id, 500, "telegram send failed", <<send>>)
           ELSE resp' = Respond(t, r, 1, user_id, 200, NoneVal, <<send>>)
        /\ store' = RowsAfterLookup(store, r.body.session)
        /\ chat' = NoChat
        /\ UNCHANGED <<issued, files, clock, nEvents>>

\* The runs of image_handler, each once: the except block replies only after
\* a failure, the transfer and the token are drawn only when the handler gets
\* to them, and the store write happens only without a remote success.
AnyRemote == CHOOSE r \in RemoteOutcomes : r.kind = "success"

AnyToken == CHOOSE tok \in Tokens : TRUE

PhotoEvents ==
    {e \in [user : Users, fail : FailPoints, remote : RemoteOutcomes,
            tok : Tokens, errorReplyOk : BOOLEAN] :
        /\ e.fail = "none" => e.errorReplyOk
        /\ e.fail \in {"get_file", "download"} => e.remote = AnyRemote
        /\ e.remote.kind = "success" => e.tok = AnyToken /\ e.fail # "store"}

Next ==
    \/ Tick
    \/ \E e \in PhotoEvents :
          image_handler(e.user, e.fail, e.remote, e.tok, e.errorReplyOk)
    \/ \E t \in Threads, body \in Bodies : upload_photo_query(t, body)
    \/ \E t \in Threads, outcome \in SendOutcomes : upload_photo_fetch(t, outcome)

Spec == Init /\ [][Next]_vars

\* The bot with no request arriving at the server.  upload_photo writes
\* neither the store nor the files, so what image_handler does to them, and
\* what it replies, is the same with and without the server threads.
ChatNext ==
    \/ Tick
    \/ \E e \in PhotoEvents :
          image_handler(e.user, e.fail, e.remote, e.tok, e.errorReplyOk)

ChatSpec == Init /\ [][ChatNext]_vars

\* The photo events that differ in what they do to the store and the cursor:
\* image_handler writes a row, and resets the cursor, according to the user,
\* the token, whether the upload succeeded and whether the write raised.
StoreEvents ==
    {e \in PhotoEvents :
        /\ e.remote.kind \in {"transport_error", "success"}
        /\ e.fail \in {"none", "store"}
        /\ e.errorReplyOk}

\* The bot and the server, with the photo events told apart by their effect
\* on the store only.
StoreNext ==
    \/ Tick
    \/ \E e \in StoreEvents :
          image_handler(e.user, e.fail, e.remote, e.tok, e.errorReplyOk)
    \/ \E t \in Threads, body \in Bodies : upload_photo_query(t, body)
    \/ \E t \in Threads, outcome \in SendOutcomes : upload_photo_fetch(t, outcome)

StoreSpec == Init /\ [][StoreNext]_vars

(***************************************************************************)
(* Properties.                                                             *)
(***************************************************************************)
\* The step just taken was image_handler and it wrote a session row.
PutDone == chat.short_id # NoneVal /\ chat.failed # "store"

\* The step just taken returned the response of a request that carried a
\* session and an image.
Answered == resp.thread # NoneVal

FullRequest ==
    /\ Answered
    /\ resp.body.kind = "obj"
    /\ ~SessionMissing(resp.body)
    /\ ~ImageMissing(resp.body)

\* C1: a photo event whose remote upload succeeds leaves the session store as
\* it was, and its share link and its direct link, in the reply's text and on
\* its two buttons, are the file URL the remote host returned.
C1_RemoteSuccessLinks ==
    [][chat'.uploaded_remote =>
         /\ store' = store
         /\ chat'.short_url = RemoteUrl(chat'.file_url)
         /\ chat'.image_url = RemoteUrl(chat'.file_url)
         /\ chat'.short_id = NoneVal
         /\ chat'.reply.kind = "success" =>
              /\ chat'.reply.share_button = RemoteUrl(chat'.file_url)
              /\ chat'.reply.direct_button = RemoteUrl(chat'.file_url)
              /\ chat'.reply.text_link = RemoteUrl(chat'.file_url)]_vars

\* A remote success answered to the user while the store holds a session.
C1_Witness ==
    /\ chat.uploaded_remote
    /\ chat.reply.kind = "success"
    /\ store # {}

C3_FallbackRowMatchesLinks ==
    /\ PutDone =>
         {r \in store : r.session_id = chat.short_id}
            = {Row(chat.user, chat.short_id,
                   DefaultUrl(Filename(chat.user, chat.ts)))}
    /\ chat.reply.kind = "fallback" =>
         /\ chat.reply.share_button = ShortUrl(chat.short_id)
         /\ chat.reply.text_link = ShortUrl(chat.short_id)
         /\ chat.reply.direct_button = DefaultUrl(Filename(chat.user, chat.ts))
         /\ chat.reply.text_direct = chat.reply.direct_button
         /\ {r \in store : r.session_id = chat.reply.share_button.id}
               = {Row(chat.user, chat.reply.share_button.id,
                      chat.reply.direct_button)}

\* A fallback reply sent by the second user while another session exists.
C3_Witness ==
    /\ chat.reply.kind = "fallback"
    /\ chat.user = 2
    /\ Cardinality(store) = 2

\* C4: a request with both fields whose session id the store does not hold is
\* answered 404 invalid session, and nothing is handed to the messaging
\* collaborator for it.
C4_UnknownSessionRejected ==
    (FullRequest /\ ~HasSession(store, resp.body.session)) =>
        /\ resp.status = 404
        /\ resp.error = "invalid session"
        /\ resp.sends = <<>>

\* The request's image parses as a data URI and its payload decodes.
WellFormedImage ==
    LET m == MatchDataUri(ImageText(resp.body.image))
    IN  m.matched /\ B64Decode(m.b64).ok

\* The bytes of the PNG signature, which the payload iVBORw0KGgo= encodes, and
\* of the JPEG start-of-image marker, which /9j/ encodes.
ExpectedBytes(image) ==
    CASE image = "png" -> <<137, 80, 78, 71, 13, 10, 26, 10>>
      [] image = "jpeg_spaced" -> <<255, 216, 255>>
      [] OTHER -> <<>>

\* C5: a request whose session the store held when it was looked up, with a
\* well-formed base64 data URI, and whose send did not raise, is delivered
\* exactly once, to the user of that session, as the decoded bytes of the
\* payload, and is answered 200.
C5_SnapshotDeliveredOnce ==
    (/\ FullRequest
     /\ resp.present
     /\ WellFormedImage
     /\ \A i \in 1..Len(resp.sends) : resp.sends[i].result # "raised") =>
        /\ Len(resp.sends) = 1
        /\ resp.sends[1].result = "delivered"
        /\ resp.sends[1].chat_id = resp.owner
        /\ resp.sends[1].photo = ExpectedBytes(resp.body.image)
        /\ resp.status = 200

\* The error of the first check a request fails, in the order missing fields,
\* session lookup, data-URI shape, base64 decoding, delivery; NoneVal if none.
FirstFailure(r) ==
    LET m == MatchDataUri(ImageText(r.body.image))
    IN  IF SessionMissing(r.body) \/ ImageMissing(r.body) THEN "missing fields"
        ELSE IF ~r.present THEN "invalid session"
        ELSE IF ~m.matched THEN "invalid image data"
        ELSE IF ~B64Decode(m.b64).ok THEN "base64 decode failed"
        ELSE IF \E i \in 1..Len(r.sends) : r.sends[i].result = "raised"
        THEN "telegram send failed"
        ELSE NoneVal

\* C6: the response to a request that is a non-empty object is the error of
\* the first check it fails; the store is looked up once, and only when the
\* fields are there; the send is attempted only when every check before it
\* has passed.
C6_FirstFailedCheckDecides ==
    (Answered /\ resp.body.kind = "obj") =>
        /\ resp.error = FirstFailure(resp)
        /\ resp.lookups = IF resp.error = "missing fields" THEN 0 ELSE 1
        /\ resp.error \in {"missing fields", "invalid session",
                           "invalid image data", "base64 decode failed"}
              => resp.sends = <<>>

\* C7: a JSON object that lacks session, image or both (the empty object and
\* empty fields included) is answered 400 missing fields, and invalid json is
\* the answer only to a body that is not JSON.
C7_MissingFieldsNotInvalidJson ==
    /\ (/\ Answered
        /\ resp.body.kind \in {"emptyobj", "obj"}
        /\ SessionMissing(resp.body) \/ ImageMissing(resp.body)) =>
           resp.status = 400 /\ resp.error = "missing fields"
    /\ (Answered /\ resp.error = "invalid json") => resp.body.kind = "notjson"

\* C8: a send that fails is answered 500 telegram send failed and is not
\* repeated, and 200 is the answer only to a request whose image was
\* delivered.
C8_NoSuccessWithoutDelivery ==
    Answered =>
        /\ (\E i \in 1..Len(resp.sends) : resp.sends[i].result = "raised") =>
              /\ resp.status = 500
              /\ resp.error = "telegram send failed"
              /\ Len(resp.sends) = 1
        /\ resp.status = 200 =>
              \E i \in 1..Len(resp.sends) : resp.sends[i].result = "delivered"

\* C9: the store holds at most one row per session id, and after a put the
\* lookup of its session id returns the one row of that put: its user and
\* its image reference.
C9_StoreRoundTrip ==
    /\ \A r1, r2 \in store : r1.session_id = r2.session_id => r1 = r2
    /\ PutDone =>
         /\ SelectUserId(store, chat.short_id) = << <<chat.user>> >>
         /\ \A r \in store :
               r.session_id = chat.short_id => r.original_image = chat.image_url

\* A put under a session id that already had a row: the row was replaced.
C9_Witness ==
    /\ PutDone
    /\ ~chat.fresh
    /\ Cardinality(store) = chat.rows_before
    /\ \E i \in 1..Len(issued) : issued[i] = chat.short_id /\ i < Len(issued)

\* C10: a request that looks up a session id the store held at the time of
\* the query is not answered invalid session, whatever the chat handler and
\* the other server threads do between its query and its fetch.
C10_LookupSeesCompletedPut ==
    (Answered /\ resp.lookups = 1 /\ resp.present) =>
        resp.error # "invalid session"

\* The step just taken was image_handler and it got to the remote upload.
Resolved == chat.remote # "none"

\* A URL that names something: a file under /uploads/ or what file_url held.
UsableUrl(u) ==
    \/ u.path = "uploads" /\ u.file # NoFile
    \/ u.path = "remote" /\ u.id # NoneVal

TransferFailed == chat.remote \in {"open_error", "transport_error"}

\* C12: uploaded_remote is true exactly when the transfer completed and the
\* response is a well-formed success with a file URL; upload_error is set
\* exactly when the transfer failed; a completed transfer whose response has
\* an error status, is not JSON, is not an object or lacks a field gives
\* uploaded_remote false and no upload_error.
C12_OutcomeClassification ==
    Resolved =>
        /\ chat.uploaded_remote <=>
              (chat.remote = "success" /\ chat.file_url # NoneVal)
        /\ chat.upload_error # NoneVal <=> TransferFailed
        /\ TransferFailed => chat.upload_error \in ErrorDetails
        /\ chat.remote \in {"http_error", "not_json", "not_object",
                            "no_success", "no_file_url"} =>
              ~chat.uploaded_remote /\ chat.upload_error = NoneVal

\* A transfer that timed out, with its detail recorded.
C12_Witness ==
    /\ chat.remote = "transport_error"
    /\ chat.upload_error = "timed out"
    /\ ~chat.uploaded_remote

\* The step just taken was image_handler and it sent the reply of lines
\* 211-225.
Replied == chat.reply.kind \in {"success", "fallback"}

\* C13: a photo event handled without a failure is answered with the success
\* wording exactly when the remote upload succeeded and with the fallback
\* wording otherwise; the fallback text carries the upload error exactly when
\* one was recorded; either reply has the share link on its share button and
\* the direct link on its direct button.
C13_ConditionalMessaging ==
    /\ chat.user # 0 /\ chat.failed = "none" => Replied
    /\ Replied =>
         /\ chat.reply.kind = "success" <=> chat.uploaded_remote
         /\ chat.reply.kind = "fallback" <=> ~chat.uploaded_remote
         /\ chat.reply.text_error # NoneVal <=>
               (chat.reply.kind = "fallback" /\ chat.upload_error # NoneVal)
         /\ chat.reply.text_error # NoneVal =>
               chat.reply.text_error = chat.upload_error
         /\ chat.reply.share_button = chat.short_url
         /\ chat.reply.direct_button = chat.image_url
         /\ chat.reply.share_button # NoUrl
         /\ chat.reply.direct_button # NoUrl

\* A fallback reply that tells the user why the upload failed.
C13_Witness ==
    /\ chat.reply.kind = "fallback"
    /\ chat.reply.text_error = "timed out"
    /\ chat.reply.share_button = ShortUrl(chat.short_id)

\* The step just taken was image_handler and one of its calls raised.
Failed == chat.user # 0 /\ chat.failed # "none"

\* C14: a failure of any step of image_handler (get_file, the download, the
\* store write, the reply) is caught by the handler's except block and told
\* to the user in an error message, and no exception leaves the handler.
C14_FailureReportedToUser ==
    Failed => chat.reply.kind = "error" /\ ~chat.escaped

\* The step just taken was a step of upload_photo.
RelayStep == http' # http \/ resp'.thread # NoneVal

\* C15: a session id that the store holds is held after every step, of
\* image_handler and of upload_photo alike, and its row is the same row unless
\* the step was a put under that very session id.
C15_SessionsNeverRemoved ==
    [][\A r \in store :
          /\ HasSession(store', r.session_id)
          /\ r \notin store' =>
                /\ chat'.short_id = r.session_id
                /\ chat'.failed # "store"
                /\ ~RelayStep]_vars

\* Two sessions are held, the first put was followed by a second, and a
\* request has just looked one of them up.
C15_Witness ==
    /\ Cardinality(store) = 2
    /\ Len(issued) = 2
    /\ Answered
    /\ resp.lookups = 1

\* C16: a step of upload_photo, whatever it answers (200, 400, 404, 500) and
\* also when it answers nothing yet, leaves the rows of the store as they
\* were.
C16_RelayLeavesStore ==
    [][RelayStep => store' = store]_vars

\* A request for a session the store holds has been answered 200, and the
\* session is still there.
C16_Witness ==
    /\ Answered
    /\ resp.status = 200
    /\ resp.present
    /\ HasSession(store, resp.body.session)

\* C17: whatever the other server thread and the chat handler do between a
\* request's query and its fetch, the row the request reads is the row of its
\* own session, and its image is handed to send_photo only for the user that
\* the store maps its session to.
C17_SnapshotToSessionOwnerOnly ==
    FullRequest =>
        /\ resp.fetched # 0 =>
              /\ HasSession(store, resp.body.session)
              /\ resp.fetched = OwnerOf(store, resp.body.session)
        /\ \A i \in 1..Len(resp.sends) :
              /\ HasSession(store, resp.body.session)
              /\ resp.sends[i].chat_id = OwnerOf(store, resp.body.session)

\* C18: the file a photo event is stored under is the file of no earlier
\* photo event, two events of one user in one clock second included, so no
\* download overwrites the file behind an earlier direct link.
C18_DistinctFilenames ==
    [][chat'.remote # "none" =>
          Filename(chat'.user, chat'.ts) \notin files]_vars

\* The responses upload_photo is written to give.
ListedResponses ==
    {<<200, NoneVal>>, <<400, "invalid json">>, <<400, "missing fields">>,
     <<400, "invalid image data">>, <<400, "base64 decode failed">>,
     <<404, "invalid session">>, <<500, "telegram send failed">>}

\* C19: a request that has been answered got one of the listed responses,
\* and a photo event that has been handled got one reply: the success reply,
\* the fallback reply or the error message.
C19_OneResponseOneReply ==
    /\ Answered => <<resp.status, resp.error>> \in ListedResponses
    /\ chat.user # 0 => chat.reply.kind \in {"success", "fallback", "error"}

====
